---- MODULE Spec2Model ----
(***************************************************************************)
(* A model of the bagit package of uoregon-libraries/gopkg: packing a      *)
(* directory as a bag (WriteTagFiles), reading its manifests back          *)
(* (ReadManifests) and validating it (Validate), over a small file system. *)
(*                                                                         *)
(* Text (file contents, paths, digests) is a sequence of tokens.  A token  *)
(* is a tuple: <<s>> is the run of bytes s (a run without white space, a   *)
(* single space, or a newline), and <<name, text>> is the hex digest that  *)
(* the hash `name` gives for the content `text` (a perfect hash: distinct  *)
(* contents have distinct digests, and a digest holds no white space).     *)
(***************************************************************************)
EXTENDS Integers, Sequences, FiniteSets, TLC

VARIABLES
  fs,      \* the bag root on disk: [files: path -> content, dirs: set of top-level directories]
  bag,     \* the Bag object: the four checksum lists and the cache
  ret,     \* what the last call on the Bag returned, and the calls it made
  since,   \* the edits made to the directory since the last successful WriteTagFiles:
           \* [n: how many, what: the set of their [kind, path]]
  packed,  \* TRUE once WriteTagFiles has succeeded on this directory
  edits,   \* how many edits the environment has made in all
  used,    \* how many calls have been made on the Bag object
  sf,      \* the SafeFile object in use, and its temporary file
  sfLog,   \* what was done with the SafeFile: whether its destination was there
           \* before, the bytes its Writes accepted, the operations called
  h        \* the Hasher object: its name and the bytes its hash has taken in

vars == <<fs, bag, ret, since, packed, edits, used, sf, sfLog, h>>

---------------------------------------------------------------------------
(* Bounds of the model *)

\* The most payload files that exist under data/ at one time.
MaxPayload == 2
\* The most edits the environment makes to the directory in one behaviour.
MaxEdits == 2
\* The most calls made on one Bag object before the caller makes a new one.
MaxCalls == 1
\* The most operations called on one SafeFile after NewSafeFile.
MaxOps == 3
\* The most lines of a manifest file that readSums is given on its own.
MaxLines == 3
\* The most calls made on one Hasher, and the most tokens its hash takes in.
MaxSums == 4
MaxAbsorbed == 3

---------------------------------------------------------------------------
(* Text *)

W(s) == <<s>>
SP == W(" ")
NL == W("\n")

\* The order of the byte runs the model's paths are made of, which is the
\* byte-wise order of the strings they stand for.
TokRank(t) ==
  CASE t = SP -> 0
    [] t = W(".txt") -> 1
    [] t = W("a") -> 2
    [] t = W("b") -> 3
    [] t = W("bagit.txt") -> 4
    [] t = W("data") -> 5
    [] t = W("data/") -> 6
    [] t = W("manifest-") -> 7
    [] t = W("md5") -> 8
    [] t = W("notes") -> 9
    [] t = W("sha256") -> 10
    [] t = W("tagmanifest-") -> 11
    [] OTHER -> 12

\* Go's < on strings: byte-wise, a proper prefix first.
RECURSIVE PathLess(_, _)
PathLess(p, q) ==
  IF q = <<>> THEN FALSE
  ELSE IF p = <<>> THEN TRUE
  ELSE IF TokRank(p[1]) # TokRank(q[1]) THEN TokRank(p[1]) < TokRank(q[1])
  ELSE PathLess(Tail(p), Tail(q))

\* strings.Split(text, "\n")
RECURSIVE SplitLines(_)
SplitLines(text) ==
  IF \A i \in 1..Len(text) : text[i] # NL THEN <<text>>
  ELSE LET k == CHOOSE i \in 1..Len(text) :
                  text[i] = NL /\ \A j \in 1..(i - 1) : text[j] # NL
       IN  <<SubSeq(text, 1, k - 1)>> \o SplitLines(SubSeq(text, k + 1, Len(text)))

\* strings.Fields(line): the maximal runs of bytes that are not white space.
RECURSIVE Fields(_)
Fields(line) ==
  IF line = <<>> THEN <<>>
  ELSE IF line[1] = SP THEN Fields(Tail(line))
  ELSE LET stops == {i \in 1..Len(line) : line[i] = SP}
           n == IF stops = {} THEN Len(line) + 1
                ELSE CHOOSE i \in stops : \A j \in stops : i <= j
       IN  <<SubSeq(line, 1, n - 1)>> \o Fields(SubSeq(line, n, Len(line)))

\* fmt.Fprintf(f, "%s  %s\n", ck.Checksum, ck.Path) for each entry in turn.
RECURSIVE FormatSums(_)
FormatSums(sums) ==
  IF sums = <<>> THEN <<>>
  ELSE sums[1].Checksum \o <<SP, SP>> \o sums[1].Path \o <<NL>> \o FormatSums(Tail(sums))

\* sort.Slice(sums, func(i, j) { sums[i].Path < sums[j].Path }), as an insertion
\* sort: e goes before the first entry whose path is greater than its own.
InsertAt(e, s, after) ==
  LET pos == IF after = {} THEN Len(s) + 1
             ELSE CHOOSE i \in after : \A j \in after : i <= j
  IN  SubSeq(s, 1, pos - 1) \o <<e>> \o SubSeq(s, pos, Len(s))

Insert(e, s) == InsertAt(e, s, {i \in 1..Len(s) : PathLess(e.Path, s[i].Path)})

RECURSIVE SortByPath(_)
SortByPath(sums) ==
  IF sums = <<>> THEN <<>>
  ELSE Insert(sums[Len(sums)], SortByPath(SubSeq(sums, 1, Len(sums) - 1)))

\* A set of paths in lexical order: the order in which filepath.Walk and
\* ioutil.ReadDir visit the entries of a directory.
Least(S) == CHOOSE p \in S : \A q \in S : ~PathLess(q, p)

RECURSIVE LexicalOrder(_)
LexicalFrom(S, m) == <<m>> \o LexicalOrder(S \ {m})
LexicalOrder(S) == IF S = {} THEN <<>> ELSE LexicalFrom(S, Least(S))

---------------------------------------------------------------------------
(* Names and errors *)

HasherName == "sha256"

DataDir == <<W("data")>>
DataTok == W("data/")
BagitName == <<W("bagit.txt")>>
NotesName == <<W("notes")>>

manifestFilename == <<W("manifest-"), W(HasherName), W(".txt")>>
tagManifestFilename == <<W("tagmanifest-"), W(HasherName), W(".txt")>>

\* The tag manifest of another algorithm, left by a tool that used md5.
OtherTagManifest == <<W("tagmanifest-"), W("md5"), W(".txt")>>

\* filepath.Match("tagmanifest-*.txt", name)
MatchTagManifest(name) ==
  Len(name) >= 2 /\ name[1] = W("tagmanifest-") /\ name[Len(name)] = W(".txt")

BagitText ==
  <<W("BagIt-Version:"), SP, W("0.97"), NL,
    W("Tag-File-Character-Encoding:"), SP, W("UTF-8"), NL>>

Nil == "nil"
ErrCannotOpen == "cannot open"
ErrNotExist == "no such file or directory"
ErrIsDir == "is a directory"
ErrInvalidLine == "invalid manifest line"
ErrNoData == "contains no data"
ErrNotABag == "not a bag"
ErrMustNotExist == "must not exist"

---------------------------------------------------------------------------
(* The file system *)

IsRegular(f, path) == path \in DOMAIN f.files
IsDir(f, path) == path \in f.dirs
MustNotExist(f, path) == ~IsRegular(f, path) /\ ~IsDir(f, path)

\* os.Open succeeds on the file: the directory records, where it records any,
\* the files that the process is denied to read.
IsReadable(f, path) ==
  IF "denied" \in DOMAIN f THEN path \notin f.denied ELSE TRUE
Deny(f, path) ==
  [files |-> f.files, dirs |-> f.dirs,
   denied |-> {path} \cup (IF "denied" \in DOMAIN f THEN f.denied ELSE {})]

\* The regular files below data/ and those directly under the root.
PayloadFiles(f) == {p \in DOMAIN f.files : p[1] = DataTok}
TopFiles(f) == {p \in DOMAIN f.files : p[1] # DataTok}

PutFile(f, path, content) ==
  [f EXCEPT !.files = (path :> content) @@ f.files]
RemoveFile(f, path) ==
  [f EXCEPT !.files = [p \in (DOMAIN f.files) \ {path} |-> f.files[p]]]

\* NewSafeFile(path), Write(content), Close(): the content goes to a temporary
\* file which CopyVerify copies over path (os.Create truncates a file that is
\* already there).
SafeFile(f, path, content) == [fs |-> PutFile(f, path, content), err |-> Nil]

\* A file that is not there; the temporary file as ioutil.TempFile makes it.
NoFile == [exists |-> FALSE, open |-> FALSE, data |-> <<>>]
NewTemp == [exists |-> TRUE, open |-> TRUE, data |-> <<>>]

\* No SafeFile made yet, and nothing done with one.
NoSafeFile ==
  [made |-> FALSE, temp |-> NoFile, finalPath |-> <<>>, Err |-> Nil, closed |-> FALSE]
NothingWrote == [existed |-> FALSE, data |-> <<>>, ops |-> <<>>]

ErrTempFile == "couldn't generate temp file"
ErrHasErrors == "cannot write to SafeFile with errors"
ErrWrite == "write failed"
ErrClosed == "file already closed"
ErrCloseTemp == "unable to close temp file"
ErrCopy == "unable to copy temp file"

\* NewSafeFile(path): io is what ioutil.TempFile does.
NewSafeFile(path, io) ==
  IF io = "ok"
  THEN [made |-> TRUE, temp |-> NewTemp, finalPath |-> path, Err |-> Nil,
        closed |-> FALSE]
  ELSE [made |-> TRUE, temp |-> NoFile, finalPath |-> path, Err |-> ErrTempFile,
        closed |-> FALSE]

\* Write(p): io is what the write on the temporary file does; a write that
\* fails has put the first n tokens of p in the file.
Write(s, p, io, n) ==
  IF s.Err # Nil THEN [sf |-> s, err |-> ErrHasErrors]
  ELSE IF ~s.temp.open
  THEN [sf |-> [s EXCEPT !.Err = ErrClosed], err |-> ErrClosed]
  ELSE IF io = "ok"
  THEN [sf |-> [s EXCEPT !.temp.data = @ \o p], err |-> Nil]
  ELSE [sf |-> [s EXCEPT !.temp.data = @ \o SubSeq(p, 1, n), !.Err = ErrWrite],
        err |-> ErrWrite]

\* Cancel, were the temporary file left behind.
CancelLeavesTemp(s, f) ==
  [sf |-> [s EXCEPT !.temp.open = FALSE], fs |-> RemoveFile(f, s.finalPath)]

\* Cancel closes the temporary file and removes it and whatever is at the
\* destination (no destination of the model is a directory).
Cancel(s, f) ==
  [sf |-> [s EXCEPT !.temp = NoFile], fs |-> RemoveFile(f, s.finalPath)]

\* CopyVerify(src, dst), src holding data: io is the step that fails, if any.
\* os.Create leaves an empty file; a copy that fails removes it; a sync that
\* fails leaves what was copied; a copy that does not verify left other bytes.
CopyVerify(f, dst, data, io) ==
  IF io = "ok" THEN [fs |-> PutFile(f, dst, data), err |-> Nil]
  ELSE IF io = "create" THEN [fs |-> f, err |-> ErrCopy]
  ELSE IF io = "copy" THEN [fs |-> RemoveFile(f, dst), err |-> ErrCopy]
  ELSE IF io = "sync" THEN [fs |-> PutFile(f, dst, data), err |-> ErrCopy]
  ELSE [fs |-> PutFile(f, dst, <<>>), err |-> ErrCopy]

\* The outcome of Close after a Cancel for the error err.
canceled(c, err) == [sf |-> [c.sf EXCEPT !.Err = err], fs |-> c.fs, err |-> err]

\* Close, once the temporary file is closed: the copy, and what follows it.
copied(s, r) ==
  IF r.err # Nil THEN canceled(Cancel(s, r.fs), ErrCopy)
  ELSE [sf |-> [s EXCEPT !.temp = NoFile, !.closed = TRUE], fs |-> r.fs,
        err |-> Nil]

\* Close: io is the step that fails, if any. Closing the temporary file fails
\* where it is closed already.
Close(s, f, io) ==
  IF s.closed THEN [sf |-> s, fs |-> f, err |-> ErrClosed]
  ELSE IF s.Err # Nil THEN canceled(Cancel(s, f), s.Err)
  ELSE IF io = "close" \/ ~s.temp.open
  THEN canceled(Cancel(s, f), ErrCloseTemp)
  ELSE copied(s, CopyVerify(f, s.finalPath, s.temp.data, io))

---------------------------------------------------------------------------
(* The cache *)

noopCache == [kind |-> "noop", m |-> <<>>]

\* GetSum, were a key that is not held reported as found, with the empty sum.
GetSumAlwaysFinds(c, key) ==
  [value |-> IF c.kind = "map" /\ key \in DOMAIN c.m THEN c.m[key] ELSE <<>>,
   exists |-> TRUE]

GetSum(c, key) ==
  IF c.kind = "map" /\ key \in DOMAIN c.m
  THEN [value |-> c.m[key], exists |-> TRUE]
  ELSE [value |-> <<>>, exists |-> FALSE]

SetSum(c, key, value) ==
  IF c.kind = "map" THEN [c EXCEPT !.m = (key :> value) @@ c.m] ELSE c

\* filepath.Join(b.root, rel): the absolute path of a file of the bag.
Abs(rel) == <<W("/bag/")>> \o rel

---------------------------------------------------------------------------
(* The Bag *)

New == [ActualChecksums |-> <<>>, ActualTagSums |-> <<>>,
        ManifestChecksums |-> <<>>, ManifestTagSums |-> <<>>,
        Cache |-> noopCache]

\* The hex digest of a content under the bag's hash.
Digest(content) == <<<<HasherName, content>>>>

\* A Hasher of the bag's algorithm, as NewSHA256 makes it: its hash has taken
\* in nothing.
NewSHA256 == [Name |-> HasherName, Hash |-> <<>>]

\* hash.Hash: Reset, Write, and Sum(nil) printed with %x.
Reset(hh) == [hh EXCEPT !.Hash = <<>>]
HashWrite(hh, p) == [hh EXCEPT !.Hash = @ \o p]
HashSum(hh) == Digest(hh.Hash)

\* io.Copy(h.Hash, r): the reader r gives the first r.upto tokens of its data
\* and then ends or fails; Sum does not look at the error.
Copy(hh, r) == HashWrite(hh, SubSeq(r.data, 1, r.upto))

summed(hh) == [h |-> hh, sum |-> HashSum(hh)]

\* Sum, were the hash not reset first.
SumWithoutReset(hh, r) == summed(Copy(hh, r))

\* Hasher.Sum(r)
Sum(hh, r) == summed(Copy(Reset(hh), r))

\* Hasher.FileSum(filename): the Sum of the whole file, or the error of os.Open,
\* which leaves the hash as it was.
fileSummed(s) == [h |-> s.h, sum |-> s.sum, err |-> Nil]
FileSum(hh, f, filename) ==
  IF ~IsRegular(f, filename) THEN [h |-> hh, sum |-> <<>>, err |-> ErrNotExist]
  ELSE fileSummed(Sum(hh, [data |-> f.files[filename],
                           upto |-> Len(f.files[filename])]))

\* compute, were a file that cannot be opened summed as an empty one.
computeSkipsUnreadable(f, path) ==
  IF ~IsRegular(f, path) THEN [sum |-> <<>>, err |-> ErrNotExist]
  ELSE IF ~IsReadable(f, path) THEN [sum |-> Digest(<<>>), err |-> Nil]
  ELSE [sum |-> Digest(f.files[path]), err |-> Nil]

compute(f, path) ==
  IF ~IsRegular(f, path) THEN [sum |-> <<>>, err |-> ErrNotExist]
  ELSE IF ~IsReadable(f, path) THEN [sum |-> <<>>, err |-> ErrCannotOpen]
  ELSE [sum |-> Digest(f.files[path]), err |-> Nil]

\* getsum: the cached sum if the cache has one, else the computed one; then
\* SetSum under the absolute path, and the FileChecksum under the relative one.
\* getsumLookup, were the sum computed whatever the cache holds.
getsumLookupComputes(hit, f, path) == compute(f, path)

getsumLookup(hit, f, path) ==
  IF hit.exists THEN [sum |-> hit.value, err |-> Nil] ELSE compute(f, path)

getsumResult(b, path, c) ==
  IF c.err # Nil
  THEN [b |-> b, chk |-> <<>>, err |-> c.err]
  ELSE [b |-> [b EXCEPT !.Cache = SetSum(@, Abs(path), c.sum)],
        chk |-> <<[Path |-> path, Checksum |-> c.sum]>>,
        err |-> Nil]

getsum(b, f, path) ==
  getsumResult(b, path, getsumLookup(GetSum(b.Cache, path), f, path))

\* readSums: the non-blank lines of the file, each of exactly two fields, the
\* checksum and then the path; the entries sorted by path.
\* parseSums, were the entries left in the order of the lines.
parseSumsInFileOrder(parts) ==
  IF \E i \in 1..Len(parts) : Len(parts[i]) # 2
  THEN [sums |-> <<>>, err |-> ErrInvalidLine]
  ELSE [sums |-> [i \in 1..Len(parts) |->
                    [Path |-> parts[i][2], Checksum |-> parts[i][1]]],
        err |-> Nil]

parseSums(parts) ==
  IF \E i \in 1..Len(parts) : Len(parts[i]) # 2
  THEN [sums |-> <<>>, err |-> ErrInvalidLine]
  ELSE [sums |-> SortByPath([i \in 1..Len(parts) |->
                               [Path |-> parts[i][2], Checksum |-> parts[i][1]]]),
        err |-> Nil]

splitFields(kept) == [i \in 1..Len(kept) |-> Fields(kept[i])]

\* readSums, were the blank lines not skipped.
readSumsOfAllLines(f, fname) ==
  IF IsDir(f, fname) THEN [sums |-> <<>>, err |-> ErrIsDir]
  ELSE IF ~IsRegular(f, fname) THEN [sums |-> <<>>, err |-> ErrNotExist]
  ELSE parseSums(splitFields(SplitLines(f.files[fname])))

readSums(f, fname) ==
  IF IsDir(f, fname) THEN [sums |-> <<>>, err |-> ErrIsDir]
  ELSE IF ~IsRegular(f, fname) THEN [sums |-> <<>>, err |-> ErrNotExist]
  ELSE parseSums(splitFields(SelectSeq(SplitLines(f.files[fname]),
                                       LAMBDA l : l # <<>>)))

\* ReadManifests: the manifest must be read; the tag manifest may be missing.
withManifest(b, m) ==
  [b |-> [b EXCEPT !.ManifestChecksums = m.sums, !.ManifestTagSums = <<>>],
   err |-> m.err]

\* withTagManifest, were every error of the tag manifest tolerated.
withTagManifestTolerant(b, t) ==
  [b |-> [b EXCEPT !.ManifestTagSums = t.sums], err |-> Nil]

withTagManifest(b, t) ==
  [b |-> [b EXCEPT !.ManifestTagSums = t.sums],
   err |-> IF t.err = ErrNotExist THEN Nil ELSE t.err]

readTagManifest(r, f) ==
  IF r.err # Nil THEN r ELSE withTagManifest(r.b, readSums(f, tagManifestFilename))

ReadManifests(b, f) ==
  readTagManifest(withManifest(b, readSums(f, manifestFilename)), f)

\* The walk over a list of files, in order, up to the first error.
RECURSIVE sumFiles(_, _, _, _)
sumNext(g, f, paths, acc) ==
  IF g.err # Nil THEN [b |-> g.b, sums |-> acc, err |-> g.err]
  ELSE sumFiles(g.b, f, Tail(paths), acc \o g.chk)

sumFiles(b, f, paths, acc) ==
  IF paths = <<>> THEN [b |-> b, sums |-> acc, err |-> Nil]
  ELSE sumNext(getsum(b, f, paths[1]), f, paths, acc)

walked(w) == [b |-> [w.b EXCEPT !.ActualChecksums = SortByPath(w.sums)], err |-> w.err]

\* GenerateChecksums, were a root without data/ walked as an empty payload.
GenerateChecksumsAnyRoot(b, f) ==
  walked(sumFiles(b, f, LexicalOrder(PayloadFiles(f)), <<>>))

GenerateChecksums(b, f) ==
  IF ~IsDir(f, DataDir) THEN [b |-> b, err |-> ErrNotABag]
  ELSE walked(sumFiles(b, f, LexicalOrder(PayloadFiles(f)), <<>>))

\* GenerateTagSums returns at the first error, before it sorts.
tagged(w) ==
  IF w.err # Nil
  THEN [b |-> [w.b EXCEPT !.ActualTagSums = w.sums], err |-> w.err]
  ELSE [b |-> [w.b EXCEPT !.ActualTagSums = SortByPath(w.sums)], err |-> Nil]

\* GenerateTagSums, were only the tag manifest of the Bag's own algorithm skipped.
GenerateTagSumsOwnOnly(b, f) ==
  tagged(sumFiles(b, f, LexicalOrder(TopFiles(f) \ {tagManifestFilename}), <<>>))

GenerateTagSums(b, f) ==
  tagged(sumFiles(b, f, LexicalOrder({p \in TopFiles(f) : ~MatchTagManifest(p)}), <<>>))

\* writeManifest, were the manifest written without the MustNotExist guard.
writeManifestUnguarded(b, f) ==
  SafeFile(f, manifestFilename, FormatSums(b.ActualChecksums))

writeManifest(b, f) ==
  IF ~MustNotExist(f, manifestFilename) THEN [fs |-> f, err |-> ErrMustNotExist]
  ELSE SafeFile(f, manifestFilename, FormatSums(b.ActualChecksums))

writeBagitFile(b, f) == SafeFile(f, BagitName, BagitText)

writeTagManifest(b, f) ==
  IF ~MustNotExist(f, tagManifestFilename) THEN [fs |-> f, err |-> ErrMustNotExist]
  ELSE SafeFile(f, tagManifestFilename, FormatSums(b.ActualTagSums))

\* mapify: the path-to-checksum map of a checksum list; a later entry of a path
\* replaces an earlier one.
mapify(src) ==
  [p \in {src[i].Path : i \in 1..Len(src)} |->
     LET k == CHOOSE i \in 1..Len(src) :
                src[i].Path = p /\ \A j \in 1..Len(src) : src[j].Path = p => j <= i
     IN  src[k].Checksum]

\* m[path] on a Go map: the empty string for a path the map does not hold.
MapGet(m, path) == IF path \in DOMAIN m THEN m[path] ELSE <<>>

Discrepancy(kind, path, manifestType, mchk, achk) ==
  [kind |-> kind, path |-> path, manifestType |-> manifestType,
   mchk |-> mchk, achk |-> achk]

\* Compare returns one message per discrepancy, in the iteration order of two Go
\* maps (which is unspecified): the model keeps the set of the messages, and a
\* message by its parts.
compareMaps(manifestType, manifestMap, actualMap) ==
  {Discrepancy("missing file", p, manifestType, <<>>, <<>>) :
     p \in {q \in DOMAIN manifestMap : MapGet(actualMap, q) = <<>>}}
  \cup
  {Discrepancy("corrupt file", p, manifestType, manifestMap[p], actualMap[p]) :
     p \in {q \in DOMAIN manifestMap :
              MapGet(actualMap, q) # <<>> /\ MapGet(actualMap, q) # manifestMap[q]}}
  \cup
  {Discrepancy("extra file", p, manifestType, <<>>, <<>>) :
     p \in {q \in DOMAIN actualMap : MapGet(manifestMap, q) = <<>>}}

Compare(manifestType, manifest, actual) ==
  compareMaps(manifestType, mapify(manifest), mapify(actual))

\* WriteTagFiles runs five steps in turn, each only if every step before it
\* returned no error.  A step takes and gives [b, fs, err, calls]: the Bag, the
\* directory, the error so far and the steps that ran.
generated(s, g, step) ==
  [s EXCEPT !.b = g.b, !.err = g.err, !.calls = Append(@, step)]

wrote(s, w, step) ==
  [s EXCEPT !.fs = w.fs, !.err = w.err, !.calls = Append(@, step)]

firstGenerateChecksums(b, f) ==
  generated([b |-> b, fs |-> f, err |-> Nil, calls |-> <<>>],
            GenerateChecksums(b, f), "GenerateChecksums")

thenWriteManifest(s) ==
  IF s.err # Nil THEN s ELSE wrote(s, writeManifest(s.b, s.fs), "writeManifest")

thenWriteBagitFile(s) ==
  IF s.err # Nil THEN s ELSE wrote(s, writeBagitFile(s.b, s.fs), "writeBagitFile")

thenGenerateTagSums(s) ==
  IF s.err # Nil THEN s ELSE generated(s, GenerateTagSums(s.b, s.fs), "GenerateTagSums")

\* thenWriteTagManifest, were the files of the earlier steps removed when the
\* tag manifest cannot be written.
rolledBack(s, w, step) ==
  [s EXCEPT !.fs = IF w.err = Nil THEN w.fs
                   ELSE RemoveFile(RemoveFile(w.fs, manifestFilename), BagitName),
            !.err = w.err, !.calls = Append(@, step)]
thenWriteTagManifestOrRollBack(s) ==
  IF s.err # Nil THEN s
  ELSE rolledBack(s, writeTagManifest(s.b, s.fs), "writeTagManifest")

thenWriteTagManifest(s) ==
  IF s.err # Nil THEN s ELSE wrote(s, writeTagManifest(s.b, s.fs), "writeTagManifest")

\* WriteTagFiles, were the tag sums generated before the two files are written.
WriteTagFilesTagSumsFirst(b, f) ==
  thenWriteTagManifest(thenWriteBagitFile(thenWriteManifest(
    thenGenerateTagSums(firstGenerateChecksums(b, f)))))

WriteTagFiles(b, f) ==
  thenWriteTagManifest(thenGenerateTagSums(thenWriteBagitFile(
    thenWriteManifest(firstGenerateChecksums(b, f)))))

\* Validate in three stages, each giving [b, disc, err, calls]; a stage does
\* nothing once an error or a discrepancy has been returned.
\* readResult, were a manifest without entries accepted.
readResultAllowEmpty(r) ==
  [b |-> r.b, disc |-> {}, calls |-> <<"ReadManifests">>, err |-> r.err]

readResult(r) ==
  [b |-> r.b, disc |-> {}, calls |-> <<"ReadManifests">>,
   err |-> IF r.err # Nil THEN r.err
           ELSE IF Len(r.b.ManifestChecksums) = 0 THEN ErrNoData
           ELSE Nil]

validateManifests(b, f) == readResult(ReadManifests(b, f))

tagResult(v, t) ==
  IF t.err # Nil
  THEN [v EXCEPT !.b = t.b, !.err = t.err, !.calls = Append(@, "GenerateTagSums")]
  ELSE [v EXCEPT !.b = t.b,
                 !.disc = Compare("tag manifest", t.b.ManifestTagSums, t.b.ActualTagSums),
                 !.calls = Append(@, "GenerateTagSums")]

validateTags(v, f) ==
  IF v.err # Nil \/ ~(Len(v.b.ManifestTagSums) > 0) THEN v
  ELSE tagResult(v, GenerateTagSums(v.b, f))

\* payloadResult, were the comparison returned along with an error.
payloadResultWithError(v, g) ==
  [v EXCEPT !.b = g.b, !.err = g.err,
            !.disc = Compare("manifest", g.b.ManifestChecksums, g.b.ActualChecksums),
            !.calls = Append(@, "GenerateChecksums")]

payloadResult(v, g) ==
  IF g.err # Nil
  THEN [v EXCEPT !.b = g.b, !.err = g.err, !.calls = Append(@, "GenerateChecksums")]
  ELSE [v EXCEPT !.b = g.b,
                 !.disc = Compare("manifest", g.b.ManifestChecksums, g.b.ActualChecksums),
                 !.calls = Append(@, "GenerateChecksums")]

\* validatePayload, were the payload validated whatever the tag comparison gave.
validatePayloadRegardless(v, f) ==
  IF v.err # Nil THEN v ELSE payloadResult(v, GenerateChecksums(v.b, f))

validatePayload(v, f) ==
  IF v.err # Nil \/ v.disc # {} THEN v
  ELSE payloadResult(v, GenerateChecksums(v.b, f))

Validate(b, f) == validatePayload(validateTags(validateManifests(b, f), f), f)

---------------------------------------------------------------------------
(* The state machine: calls on one Bag, and an environment that edits the  *)
(* directory between runs (the next run starts from a Bag made by New).    *)

X == <<W("x")>>
Y == <<W("y")>>
OldBagitText == <<W("BagIt-Version:"), SP, W("0.96"), NL>>
JunkLine == <<W("junk"), NL>>
\* The manifest found where data/ is no longer there: written by hand, its
\* lines not in order of path, and data/a on two of them.
OldManifestText ==
  FormatSums(<<[Path |-> <<DataTok, W("b")>>, Checksum |-> Digest(X)],
               [Path |-> <<DataTok, W("a")>>, Checksum |-> Digest(X)],
               [Path |-> <<DataTok, W("a")>>, Checksum |-> Digest(Y)]>>)

\* The names of the payload files, relative to data/; one holds a space.
PayloadNames == {<<W("a")>>, <<W("b")>>, <<W("a"), SP, W("b")>>}
PayloadPath(n) == <<DataTok>> \o n

NoEdits == [n |-> 0, what |-> {}]
NoRet == [op |-> "none", err |-> Nil, disc |-> {}, calls |-> <<>>]

\* The Bag a call is made on: the one in use, or a new one from New once the
\* one in use has served MaxCalls calls.
TheBag == IF used < MaxCalls THEN bag ELSE New
Used == IF used < MaxCalls THEN used + 1 ELSE 1

Init ==
  /\ \E hasData \in BOOLEAN, tagDir \in BOOLEAN,
        names \in SUBSET PayloadNames,
        top \in SUBSET {BagitName, manifestFilename} :
       /\ Cardinality(names) <= MaxPayload
       /\ hasData \/ names = {}
       /\ manifestFilename \in top
            => (~hasData /\ ~tagDir /\ top = {manifestFilename})
       /\ (manifestFilename \notin top /\ (tagDir \/ top # {}))
            => (names = {<<W("a")>>} /\ ~(tagDir /\ top # {}))
       /\ fs = [files |-> [p \in {PayloadPath(n) : n \in names} \cup top |->
                             IF p = BagitName THEN OldBagitText
                             ELSE IF p = manifestFilename THEN OldManifestText
                             ELSE X],
                dirs |-> (IF hasData THEN {DataDir} ELSE {})
                         \cup (IF tagDir THEN {tagManifestFilename} ELSE {})]
  /\ bag = New
  /\ ret = NoRet
  /\ since = NoEdits
  /\ packed = FALSE
  /\ edits = 0
  /\ used = 0
  /\ h = NewSHA256
  /\ sf = NoSafeFile
  /\ sfLog = NothingWrote

MoreEdits(kind, path) ==
  [n |-> since.n + 1, what |-> since.what \cup {[kind |-> kind, path |-> path]}]

\* One edit of the directory by the environment.
Edited(f, kind, path) ==
  /\ edits < MaxEdits
  /\ edits' = edits + 1
  /\ fs' = f
  /\ since' = IF packed THEN MoreEdits(kind, path) ELSE since
  /\ bag' = New
  /\ used' = 0
  /\ ret' = NoRet
  /\ UNCHANGED <<packed, sf, sfLog, h>>

AddPayload ==
  \E n \in PayloadNames :
    /\ IsDir(fs, DataDir)
    /\ ~IsRegular(fs, PayloadPath(n))
    /\ Cardinality(PayloadFiles(fs)) < MaxPayload
    /\ Edited(PutFile(fs, PayloadPath(n), X), "add", PayloadPath(n))

CorruptPayload ==
  \E p \in PayloadFiles(fs) :
    Edited(PutFile(fs, p, IF fs.files[p] = X THEN Y ELSE X), "corrupt", p)

RemovePayload ==
  \E p \in PayloadFiles(fs) : Edited(RemoveFile(fs, p), "remove", p)

\* What an edit may leave in a top-level file: nothing, a line of one field,
\* the file with its first run of bytes replaced, or other content.
EditContents(f, name) ==
  IF name \in {manifestFilename, tagManifestFilename}
  THEN {<<>>, JunkLine}
       \cup (IF name = manifestFilename THEN {<<NL>>} ELSE {})
       \cup (IF IsRegular(f, name) /\ f.files[name] # <<>>
             THEN {<<W("0bad")>> \o Tail(f.files[name])} ELSE {})
  ELSE IF name = BagitName THEN {OldBagitText}
  ELSE {X}

EditTop ==
  \E name \in {manifestFilename, tagManifestFilename, BagitName, NotesName} :
    \E content \in EditContents(fs, name) :
      /\ ~IsDir(fs, name)
      /\ IsRegular(fs, name) => fs.files[name] # content
      /\ Edited(PutFile(fs, name, content),
                IF IsRegular(fs, name) THEN "corrupt" ELSE "add", name)

RemoveTop ==
  \E p \in TopFiles(fs) : Edited(RemoveFile(fs, p), "remove", p)

\* A call on the Bag: what it leaves in the Bag and what it returns.
Called(op, b, err, disc, calls) ==
  /\ bag' = b
  /\ ret' = [op |-> op, err |-> err, disc |-> disc, calls |-> calls]
  /\ used' = Used
  /\ UNCHANGED <<edits, sf, sfLog, h>>

WroteTagFiles(r) ==
  /\ fs' = r.fs
  /\ packed' = (packed \/ r.err = Nil)
  /\ since' = IF r.err = Nil THEN NoEdits
              ELSE IF packed /\ r.fs # fs THEN MoreEdits("partial write", <<>>)
              ELSE since
  /\ Called("WriteTagFiles", r.b, r.err, {}, r.calls)

CallWriteTagFiles == WroteTagFiles(WriteTagFiles(TheBag, fs))

\* Validate, were a tag manifest that has discrepancies removed from the
\* directory.
ValidatedRemovingTagManifest(r) ==
  /\ Called("Validate", r.b, r.err, r.disc, r.calls)
  /\ fs' = IF r.disc # {} /\ ~("GenerateChecksums" \in {r.calls[i] : i \in 1..Len(r.calls)})
           THEN RemoveFile(fs, tagManifestFilename) ELSE fs
  /\ UNCHANGED <<since, packed>>

Validated(r) ==
  /\ Called("Validate", r.b, r.err, r.disc, r.calls)
  /\ UNCHANGED <<fs, since, packed>>

CallValidate == Validated(Validate(TheBag, fs))

Returned(op, r) ==
  /\ Called(op, r.b, r.err, {}, <<op>>)
  /\ UNCHANGED <<fs, since, packed>>

CallReadManifests == Returned("ReadManifests", ReadManifests(TheBag, fs))

CallGenerateChecksums == Returned("GenerateChecksums", GenerateChecksums(TheBag, fs))

CallGenerateTagSums == Returned("GenerateTagSums", GenerateTagSums(TheBag, fs))

Next ==
  \/ CallWriteTagFiles
  \/ CallValidate
  \/ CallReadManifests
  \/ CallGenerateChecksums
  \/ CallGenerateTagSums
  \/ AddPayload
  \/ CorruptPayload
  \/ RemovePayload
  \/ EditTop
  \/ RemoveTop

Spec == Init /\ [][Next]_vars

---------------------------------------------------------------------------
(* Compare on its own: an exported function, applied to two checksum lists  *)
(* of the caller's.                                                         *)

\* The checksums of the lists: two digests, and the empty string.
CompareSums == {<<>>, Digest(X), Digest(Y)}
ComparePaths == {PayloadPath(<<W("a")>>), PayloadPath(<<W("b")>>)}

\* The list that holds, in order of path, the paths of c with their checksums.
ListOf(c) ==
  LET paths == LexicalOrder(DOMAIN c)
  IN  [i \in 1..Len(paths) |-> [Path |-> paths[i], Checksum |-> c[paths[i]]]]

\* The lists given to Compare: no path twice.
CompareLists ==
  {ListOf(c) : c \in UNION {[S -> CompareSums] : S \in SUBSET ComparePaths}}

InitCompare ==
  /\ \E manifest \in CompareLists, actual \in CompareLists :
       bag = [New EXCEPT !.ManifestChecksums = manifest, !.ActualChecksums = actual]
  /\ fs = [files |-> <<>>, dirs |-> {}]
  /\ ret = NoRet
  /\ since = NoEdits
  /\ packed = FALSE
  /\ edits = 0
  /\ used = 0
  /\ h = NewSHA256
  /\ sf = NoSafeFile
  /\ sfLog = NothingWrote

CallCompare ==
  /\ ret' = [op |-> "Compare", err |-> Nil, calls |-> <<>>,
             disc |-> Compare("manifest", bag.ManifestChecksums, bag.ActualChecksums)]
  /\ UNCHANGED <<fs, bag, since, packed, edits, used, sf, sfLog, h>>

NextCompare == CallCompare

SpecCompare == InitCompare /\ [][NextCompare]_vars

---------------------------------------------------------------------------
(* A Bag with a cache of the caller's: a map from keys to sums, which the   *)
(* caller has filled before the first call and keeps on the Bag between the *)
(* calls.                                                                   *)

\* The keys the caller has filled, and for each the sums it may hold: for
\* data/a the digest of its content or of another content, for bagit.txt the
\* digest of another content.
CachedSums ==
  (PayloadPath(<<W("a")>>) :> {Digest(X), Digest(Y)}) @@ (BagitName :> {Digest(X)})

CallerCaches ==
  UNION {{[kind |-> "map", m |-> m] : m \in [K -> UNION {CachedSums[k] : k \in K}]}
           : K \in SUBSET DOMAIN CachedSums}

InitCache ==
  /\ \E names \in SUBSET {<<W("a")>>, <<W("b")>>}, cache \in CallerCaches :
       /\ Cardinality(names) <= MaxPayload
       /\ \A k \in DOMAIN cache.m : cache.m[k] \in CachedSums[k]
       /\ fs = [files |-> [p \in {PayloadPath(n) : n \in names} |-> X],
                dirs |-> {DataDir}]
       /\ bag = [New EXCEPT !.Cache = cache]
  /\ ret = NoRet
  /\ since = NoEdits
  /\ packed = FALSE
  /\ edits = 0
  /\ used = 0
  /\ h = NewSHA256
  /\ sf = NoSafeFile
  /\ sfLog = NothingWrote

\* A call on the Bag that carries the cache.
CalledCached(op, r, disc, calls) ==
  /\ bag' = r.b
  /\ ret' = [op |-> op, err |-> r.err, disc |-> disc, calls |-> calls]
  /\ UNCHANGED <<since, edits, used, sf, sfLog, h>>

WroteTagFilesCached(r) ==
  /\ fs' = r.fs
  /\ packed' = (packed \/ r.err = Nil)
  /\ CalledCached("WriteTagFiles", r, {}, r.calls)

CachedWriteTagFiles == WroteTagFilesCached(WriteTagFiles(bag, fs))

ValidatedCached(r) ==
  /\ CalledCached("Validate", r, r.disc, r.calls)
  /\ UNCHANGED <<fs, packed>>

CachedValidate == ValidatedCached(Validate(bag, fs))

CachedGenerateChecksums ==
  /\ CalledCached("GenerateChecksums", GenerateChecksums(bag, fs), {},
                  <<"GenerateChecksums">>)
  /\ UNCHANGED <<fs, packed>>

CachedGenerateTagSums ==
  /\ CalledCached("GenerateTagSums", GenerateTagSums(bag, fs), {},
                  <<"GenerateTagSums">>)
  /\ UNCHANGED <<fs, packed>>

NextCache ==
  \/ CachedWriteTagFiles
  \/ CachedValidate
  \/ CachedGenerateChecksums
  \/ CachedGenerateTagSums

SpecCache == InitCache /\ [][NextCache]_vars

---------------------------------------------------------------------------
(* The same calls and edits on other directories: a bag that holds the tag
   manifest of another algorithm, and a root where data is a regular file or is
   not there. *)

RootOf(files, dirs) ==
  [files |-> [p \in files |-> IF p = manifestFilename THEN OldManifestText ELSE X],
   dirs |-> dirs]

OtherRoots ==
  {RootOf({PayloadPath(<<W("a")>>), OtherTagManifest}, {DataDir}),
   RootOf({PayloadPath(<<W("a")>>), OtherTagManifest, NotesName}, {DataDir}),
   RootOf({DataDir, manifestFilename}, {}),
   RootOf({manifestFilename}, {}),
   RootOf({}, {})}

InitRoots ==
  /\ fs \in OtherRoots
  /\ bag = New
  /\ ret = NoRet
  /\ since = NoEdits
  /\ packed = FALSE
  /\ edits = 0
  /\ used = 0
  /\ h = NewSHA256
  /\ sf = NoSafeFile
  /\ sfLog = NothingWrote

SpecRoots == InitRoots /\ [][Next]_vars

---------------------------------------------------------------------------
(* A SafeFile on its own: made for a destination in the directory, written
   to, and closed or cancelled, with the failures the file system may give. *)

SafeDest == NotesName
Chunks == {<<W("a")>>, <<W("b"), NL>>}
WriteOutcomes == {"ok", "fail"}
CloseOutcomes == {"ok", "close", "create", "copy", "sync", "verify"}

InitSafeFile ==
  /\ \E existed \in BOOLEAN :
       /\ fs = [files |-> IF existed THEN (SafeDest :> X) ELSE <<>>, dirs |-> {}]
       /\ sfLog = [existed |-> existed, data |-> <<>>, ops |-> <<>>]
  /\ sf = NoSafeFile
  /\ bag = New
  /\ ret = NoRet
  /\ since = NoEdits
  /\ packed = FALSE
  /\ edits = 0
  /\ used = 0
  /\ h = NewSHA256

\* One operation on the SafeFile and what it returned.
Did(op, s, f, err, data) ==
  /\ sf' = s
  /\ fs' = f
  /\ sfLog' = [sfLog EXCEPT !.data = data, !.ops = Append(@, op)]
  /\ ret' = [op |-> op, err |-> err, disc |-> {}, calls |-> <<>>]
  /\ UNCHANGED <<bag, since, packed, edits, used, h>>

CallNewSafeFile ==
  /\ ~sf.made
  /\ \E io \in WriteOutcomes :
       /\ sf' = NewSafeFile(SafeDest, io)
       /\ ret' = [op |-> "NewSafeFile", err |-> Nil, disc |-> {}, calls |-> <<>>]
  /\ UNCHANGED <<fs, sfLog, bag, since, packed, edits, used, h>>

Written(r, p) ==
  Did("Write", r.sf, fs, r.err, IF r.err = Nil THEN sfLog.data \o p ELSE sfLog.data)

CallWrite ==
  /\ sf.made
  /\ Len(sfLog.ops) < MaxOps
  /\ \E p \in Chunks, io \in WriteOutcomes, n \in 0..1 :
       /\ n < Len(p)
       /\ io = "ok" => n = 0
       /\ Written(Write(sf, p, io, n), p)

Closed(r) == Did("Close", r.sf, r.fs, r.err, sfLog.data)

CallClose ==
  /\ sf.made
  /\ Len(sfLog.ops) < MaxOps
  /\ \E io \in CloseOutcomes : Closed(Close(sf, fs, io))

Cancelled(r) == Did("Cancel", r.sf, r.fs, Nil, sfLog.data)

CallCancel ==
  /\ sf.made
  /\ Len(sfLog.ops) < MaxOps
  /\ Cancelled(Cancel(sf, fs))

NextSafeFile ==
  \/ CallNewSafeFile
  \/ CallWrite
  \/ CallClose
  \/ CallCancel

SpecSafeFile == InitSafeFile /\ [][NextSafeFile]_vars

---------------------------------------------------------------------------
(* A Hasher on its own: one object, used for Sum after Sum, and written to
   directly through the hash.Hash it embeds. *)

\* The readers given to Sum: their data, and how much of it they give.
Readers ==
  {[data |-> d, upto |-> n] : d \in {<<>>, X, Y, X \o Y, Y \o X}, n \in 0..2}

InitHasher ==
  /\ h = NewSHA256
  /\ fs = [files |-> (NotesName :> (X \o Y)), dirs |-> {}]
  /\ bag = New
  /\ ret = NoRet
  /\ since = NoEdits
  /\ packed = FALSE
  /\ edits = 0
  /\ used = 0
  /\ sf = NoSafeFile
  /\ sfLog = NothingWrote

\* Hasher.Sum(r): what it returns, and for which reader.
Summed(r, s) ==
  /\ h' = s.h
  /\ ret' = [op |-> "Sum", err |-> Nil, disc |-> {}, calls |-> <<>>,
             input |-> r, sum |-> s.sum]

CallSum ==
  /\ used < MaxSums
  /\ used' = used + 1
  /\ \E r \in Readers : r.upto <= Len(r.data) /\ Summed(r, Sum(h, r))
  /\ UNCHANGED <<fs, bag, since, packed, edits, sf, sfLog>>

FileSummed(name, s) ==
  /\ h' = s.h
  /\ ret' = [op |-> "FileSum", err |-> s.err, disc |-> {}, calls |-> <<>>,
             input |-> name, sum |-> s.sum]

CallFileSum ==
  /\ used < MaxSums
  /\ used' = used + 1
  /\ \E name \in {NotesName, BagitName} : FileSummed(name, FileSum(h, fs, name))
  /\ UNCHANGED <<fs, bag, since, packed, edits, sf, sfLog>>

\* A Write on the embedded hash.Hash, between two Sums.
CallHashWrite ==
  /\ used < MaxSums
  /\ used' = used + 1
  /\ \E p \in {X, Y} :
       /\ Len(h.Hash) + Len(p) <= MaxAbsorbed
       /\ h' = HashWrite(h, p)
  /\ ret' = [op |-> "Write", err |-> Nil, disc |-> {}, calls |-> <<>>]
  /\ UNCHANGED <<fs, bag, since, packed, edits, sf, sfLog>>

NextHasher ==
  \/ CallSum
  \/ CallFileSum
  \/ CallHashWrite

SpecHasher == InitHasher /\ [][NextHasher]_vars

---------------------------------------------------------------------------
(* The same calls on a directory in which payload files become unreadable:
   os.Open fails on them. *)

InitDenied ==
  /\ \E names \in SUBSET {<<W("a")>>, <<W("b")>>} :
       /\ names # {}
       /\ fs = [files |-> [p \in {PayloadPath(n) : n \in names} |-> X],
                dirs |-> {DataDir}]
  /\ bag = New
  /\ ret = NoRet
  /\ since = NoEdits
  /\ packed = FALSE
  /\ edits = 0
  /\ used = 0
  /\ sf = NoSafeFile
  /\ sfLog = NothingWrote
  /\ h = NewSHA256

\* The environment takes away the permission to read a payload file.
DenyPayload ==
  \E p \in PayloadFiles(fs) :
    /\ IsReadable(fs, p)
    /\ Edited(Deny(fs, p), "deny", p)

NextDenied ==
  \/ CallWriteTagFiles
  \/ CallValidate
  \/ CallReadManifests
  \/ CallGenerateChecksums
  \/ CallGenerateTagSums
  \/ DenyPayload
  \/ AddPayload
  \/ RemoveTop

SpecDenied == InitDenied /\ [][NextDenied]_vars

---------------------------------------------------------------------------
(* readSums on its own, on manifest files of any lines. *)

\* The lines a manifest file may hold: two entries, an entry after a leading
\* space, a line of one field, a line of three, a line of white space, a blank
\* line.
ManifestLines ==
  {Digest(X) \o <<SP, SP, DataTok, W("b")>>,
   Digest(Y) \o <<SP, SP, DataTok, W("a")>>,
   <<SP>> \o Digest(X) \o <<SP, DataTok, W("a")>>,
   <<W("junk")>>,
   Digest(X) \o <<SP, SP, DataTok, W("a"), SP, W("b")>>,
   <<SP>>,
   <<>>}

\* The text of the lines, each ended by a newline.
RECURSIVE JoinLines(_)
JoinLines(lines) ==
  IF lines = <<>> THEN <<>>
  ELSE lines[1] \o <<NL>> \o JoinLines(Tail(lines))

ManifestTexts ==
  {JoinLines(ls) : ls \in UNION {[1..n -> ManifestLines] : n \in 0..MaxLines}}

InitReadSums ==
  /\ \E text \in ManifestTexts :
       fs = [files |-> (manifestFilename :> text), dirs |-> {}]
  /\ bag = New
  /\ ret = NoRet
  /\ since = NoEdits
  /\ packed = FALSE
  /\ edits = 0
  /\ used = 0
  /\ sf = NoSafeFile
  /\ sfLog = NothingWrote
  /\ h = NewSHA256

ReadSums(r) ==
  /\ ret' = [op |-> "readSums", err |-> r.err, disc |-> {}, calls |-> <<>>,
             sums |-> r.sums]
  /\ UNCHANGED <<fs, bag, since, packed, edits, used, sf, sfLog, h>>

CallReadSums == ReadSums(readSums(fs, manifestFilename))

NextReadSums == CallReadSums

SpecReadSums == InitReadSums /\ [][NextReadSums]_vars

---------------------------------------------------------------------------
(* The command-line program: one run of main on the directory. Each run is a
   process of its own, with a Bag from New, and ends with an exit status. *)

\* The command lines: os.Args, the program's name first.
CLIArgs ==
  {<<"bagit", "write", "sha256", "/bag">>,
   <<"bagit", "validate", "sha256", "/bag">>,
   <<"bagit", "check", "sha256", "/bag">>,
   <<"bagit", "write", "crc32", "/bag">>,
   <<"bagit", "validate">>}

\* How a run ended: what it did to the directory, what the operation returned,
\* the lines of its standard output and its exit status.
Exited(op, f, err, disc, out, code) ==
  [op |-> op, fs |-> f, err |-> err, disc |-> disc, out |-> out, code |-> code]

\* usage prints to standard error and exits with 1.
usage(f) == Exited("usage", f, Nil, {}, <<>>, 1)

\* write prints the error of WriteTagFiles and returns to main, which returns.
write(r) == Exited("write", r.fs, r.err, {}, <<>>, 0)

\* validate exits with 255 on an error and with 1 on discrepancies; else main
\* prints "Valid" and returns.
validate(r, f) ==
  IF r.err # Nil THEN Exited("validate", f, r.err, {}, <<"Validating bag">>, 255)
  ELSE IF r.disc # {}
  THEN Exited("validate", f, Nil, r.disc, <<"Validating bag">>, 1)
  ELSE Exited("validate", f, Nil, {}, <<"Validating bag", "Valid">>, 0)

main(args, f) ==
  IF Len(args) # 4 THEN usage(f)
  ELSE IF args[3] # HasherName THEN usage(f)
  ELSE IF args[2] = "write" THEN write(WriteTagFiles(New, f))
  ELSE IF args[2] = "validate" THEN validate(Validate(New, f), f)
  ELSE usage(f)

\* One run of the program: the process and its Bag are gone when it has exited.
RanMain(e) ==
  /\ fs' = e.fs
  /\ ret' = [op |-> e.op, err |-> e.err, disc |-> e.disc, calls |-> e.out,
             code |-> e.code]
  /\ packed' = (packed \/ (e.op = "write" /\ e.err = Nil))
  /\ bag' = New
  /\ used' = 0
  /\ UNCHANGED <<since, edits, sf, sfLog, h>>

RunMain == \E args \in CLIArgs : RanMain(main(args, fs))

\* The runs of the program, and the environment's edits between them.
NextCLI ==
  \/ RunMain
  \/ AddPayload
  \/ CorruptPayload
  \/ RemovePayload
  \/ EditTop
  \/ RemoveTop

SpecCLI == Init /\ [][NextCLI]_vars

---------------------------------------------------------------------------
(* The properties *)

Range(s) == {s[i] : i \in 1..Len(s)}

AllPayload == {PayloadPath(n) : n \in PayloadNames}

\* The directory is as a successful WriteTagFiles left it, but for exactly the
\* edits of the set `what`, each made once.
PackedThen(what) == packed /\ since = [n |-> Cardinality(what), what |-> what]

Edit(kind, path) == [kind |-> kind, path |-> path]

\* The last call returned exactly one discrepancy, of this kind, for this path.
Only(kind, path) ==
  \E d \in ret.disc : ret.disc = {d} /\ d.kind = kind /\ d.path = path

\* C1: a Validate of a directory that WriteTagFiles has packed and that nothing
\* has touched since returns a nil error and no discrepancy.
RoundTrip ==
  (ret.op = "Validate" /\ PackedThen({})) => (ret.err = Nil /\ ret.disc = {})

\* C2: after a successful WriteTagFiles, when the content of one payload file
\* has been changed and nothing else, Validate returns a nil error and exactly
\* one discrepancy, a "corrupt file" for that file's path.
CorruptionReported ==
  \A p \in AllPayload :
    (ret.op = "Validate" /\ PackedThen({Edit("corrupt", p)}))
      => (ret.err = Nil /\ Only("corrupt file", p))

\* C3: after a successful WriteTagFiles, when one payload file has been removed
\* and nothing else, Validate returns a nil error and exactly one discrepancy,
\* a "missing file" for the removed path.
DeletionReported ==
  \A p \in AllPayload :
    (ret.op = "Validate" /\ PackedThen({Edit("remove", p)}))
      => (ret.err = Nil /\ Only("missing file", p))

\* C4: after a successful WriteTagFiles, when one regular file has been added
\* under data/ and nothing else, Validate returns a nil error and exactly one
\* discrepancy, an "extra file" for the added path.
AdditionReported ==
  \A p \in AllPayload :
    (ret.op = "Validate" /\ PackedThen({Edit("add", p)}))
      => (ret.err = Nil /\ Only("extra file", p))

\* The last call ran this step.
Ran(step) == step \in Range(ret.calls)

\* What comparing the tag manifest the Bag has read with the tag sums it has
\* generated gives.
TagComparison == Compare("tag manifest", bag.ManifestTagSums, bag.ActualTagSums)

\* The last call was a Validate that came to compare the tag sums: the tag sums
\* were generated, and without error.
TagsCompared ==
  ret.op = "Validate" /\ Ran("GenerateTagSums")
    /\ (ret.err # Nil => Ran("GenerateChecksums"))

\* The only discrepancy returned is the tag manifest's, for the manifest file.
OnlyTheManifestFile ==
  \E d \in ret.disc :
    /\ ret.disc = {d}
    /\ d = Discrepancy("corrupt file", manifestFilename, "tag manifest",
                       d.mchk, Digest(fs.files[manifestFilename]))

\* Packed, and then one payload file and the manifest file corrupted.
BothCorrupted(p) ==
  PackedThen({Edit("corrupt", p), Edit("corrupt", manifestFilename)})

\* A manifest file that reads, and has an entry.
HasEntries(m) == m.err = Nil /\ m.sums # <<>>

\* C5, as the claim states it: after packing, when a payload file and the
\* manifest file have both been corrupted, Validate returns a nil error and only
\* the tag manifest's discrepancy for the manifest file, and generates no payload
\* checksums; and whenever the tag comparison gives a discrepancy, Validate
\* returns it and generates no payload checksums.
TagLayerPrecedenceAlways ==
  /\ \A p \in AllPayload :
       (ret.op = "Validate" /\ BothCorrupted(p))
         => (ret.err = Nil /\ OnlyTheManifestFile /\ ~Ran("GenerateChecksums"))
  /\ (TagsCompared /\ TagComparison # {})
       => (ret.err = Nil /\ ret.disc = TagComparison /\ ~Ran("GenerateChecksums"))

\* C5, amended: the same, where the corrupted manifest and the tag manifest
\* still read and have entries; a manifest left unreadable or empty makes
\* Validate return an error instead.
TagLayerPrecedence ==
  /\ \A p \in AllPayload :
       (ret.op = "Validate" /\ BothCorrupted(p)
          /\ HasEntries(readSums(fs, manifestFilename))
          /\ HasEntries(readSums(fs, tagManifestFilename)))
         => (ret.err = Nil /\ OnlyTheManifestFile /\ ~Ran("GenerateChecksums"))
  /\ \A p \in AllPayload :
       (ret.op = "Validate" /\ BothCorrupted(p)
          /\ ~HasEntries(readSums(fs, manifestFilename)))
         => (ret.err # Nil /\ ret.disc = {})
  /\ (TagsCompared /\ TagComparison # {})
       => (ret.err = Nil /\ ret.disc = TagComparison /\ ~Ran("GenerateChecksums"))

\* C5, reached: a payload file and the manifest corrupted after packing, and
\* Validate has returned the one discrepancy of the tag layer.
TagLayerPrecedenceReached ==
  /\ ret.op = "Validate"
  /\ BothCorrupted(PayloadPath(<<W("a")>>))
  /\ ret.err = Nil
  /\ OnlyTheManifestFile
  /\ fs.files[PayloadPath(<<W("a")>>)] = Y

\* What the files of the payload would give as a manifest now.
ManifestNow == FormatSums(GenerateChecksums(New, fs).b.ActualChecksums)

\* C6: WriteTagFiles never overwrites a manifest: called where the manifest is
\* there it returns an error, and the manifest and the tag manifest that were
\* there before the call hold after it what they held before it.
NoOverwrite ==
  [][(ret'.op = "WriteTagFiles" /\ CallWriteTagFiles) =>
       /\ IsRegular(fs, manifestFilename) => ret'.err # Nil
       /\ \A name \in {manifestFilename, tagManifestFilename} :
            IsRegular(fs, name)
              => (IsRegular(fs', name) /\ fs'.files[name] = fs.files[name])]_vars

\* C6, reached: WriteTagFiles has been called again on a packed directory whose
\* payload has changed since, and has refused; the manifest is the old one.
NoOverwriteReached ==
  /\ ret.op = "WriteTagFiles"
  /\ ret.err = ErrMustNotExist
  /\ PackedThen({Edit("add", PayloadPath(<<W("b")>>))})
  /\ IsRegular(fs, manifestFilename)
  /\ IsRegular(fs, tagManifestFilename)
  /\ fs.files[manifestFilename] # ManifestNow

\* C7: when WriteTagFiles comes to write bagit.txt (the manifest was not there,
\* so the steps before have succeeded) and bagit.txt is already there, the call
\* returns an error and bagit.txt holds after it what it held before it.
BagitCollisionFails ==
  [][(ret'.op = "WriteTagFiles" /\ IsRegular(fs, BagitName)
        /\ "writeBagitFile" \in Range(ret'.calls) /\ CallWriteTagFiles)
       => (ret'.err # Nil /\ fs'.files[BagitName] = fs.files[BagitName])]_vars

\* The line of a manifest for the file `name` as it is on disk.
LineOf(name) == Digest(fs.files[name]) \o <<SP, SP>> \o name

ReadManifestsErrors ==
  ret.op = "ReadManifests" =>
    /\ MustNotExist(fs, manifestFilename) => ret.err = ErrNotExist
    /\ (readSums(fs, manifestFilename).err = Nil
          /\ MustNotExist(fs, tagManifestFilename))
         => /\ ret.err = Nil
            /\ bag.ManifestTagSums = <<>>
            /\ bag.ManifestChecksums = readSums(fs, manifestFilename).sums
    /\ (readSums(fs, manifestFilename).err = Nil
          /\ ~MustNotExist(fs, tagManifestFilename)
          /\ readSums(fs, tagManifestFilename).err # Nil)
         => ret.err = readSums(fs, tagManifestFilename).err

\* C9, reached: ReadManifests has returned nil on a directory that has a
\* manifest with entries and no tag manifest.
ReadManifestsErrorsReached ==
  /\ ret.op = "ReadManifests"
  /\ ret.err = Nil
  /\ MustNotExist(fs, tagManifestFilename)
  /\ bag.ManifestChecksums # <<>>
  /\ bag.ManifestTagSums = <<>>

\* A manifest text without entries: nothing but line ends.
NoEntries(text) == \A i \in 1..Len(text) : text[i] = NL

\* C10: when the manifest is there and has no entries, Validate returns an
\* error and no discrepancy list, whatever data/ holds.
EmptyManifestInvalid ==
  (ret.op = "Validate" /\ IsRegular(fs, manifestFilename)
     /\ NoEntries(fs.files[manifestFilename]))
    => (ret.err # Nil /\ ret.disc = {})

\* C10, reached: Validate has returned "contains no data" for a manifest without
\* entries, on a directory that has payload files.
EmptyManifestInvalidReached ==
  /\ ret.op = "Validate"
  /\ ret.err = ErrNoData
  /\ IsRegular(fs, manifestFilename)
  /\ NoEntries(fs.files[manifestFilename])
  /\ PayloadFiles(fs) # {}

\* C11: Validate never returns an error and discrepancies together: with an
\* error the discrepancy list is empty, and with discrepancies the error is nil.
ErrorOrDiscrepancies ==
  ret.op = "Validate" => (ret.err = Nil \/ ret.disc = {})

\* C11, reached: Validate has read a manifest with entries, has come to generate
\* the payload checksums and has returned their error, without discrepancies.
ErrorOrDiscrepanciesReached ==
  /\ ret.op = "Validate"
  /\ Ran("GenerateChecksums")
  /\ ret.err = ErrNotABag
  /\ ret.disc = {}
  /\ bag.ManifestChecksums # <<>>

\* The paths of a checksum list, and the checksum a list gives for a path.
PathsOf(list) == {list[i].Path : i \in 1..Len(list)}
SumOf(list, path) == (CHOOSE i \in 1..Len(list) : list[i].Path = path)

\* The last call returned a discrepancy of this kind for this path.
Reports(kind, path) == \E d \in ret.disc : d.kind = kind /\ d.path = path

\* C12: for every path of the claimed list Compare reports "missing file" iff
\* the path is not in the actual list, and "corrupt file" iff it is there with
\* another digest; for every path of the actual list that is not in the claimed
\* list it reports "extra file"; for a path in both with equal digests it
\* reports nothing.
CompareClassifies ==
  ret.op = "Compare" =>
    /\ \A p \in PathsOf(bag.ManifestChecksums) :
         /\ Reports("missing file", p) <=> p \notin PathsOf(bag.ActualChecksums)
         /\ Reports("corrupt file", p)
              <=> /\ p \in PathsOf(bag.ActualChecksums)
                  /\ bag.ActualChecksums[SumOf(bag.ActualChecksums, p)].Checksum
                       # bag.ManifestChecksums[SumOf(bag.ManifestChecksums, p)].Checksum
         /\ (/\ p \in PathsOf(bag.ActualChecksums)
             /\ bag.ActualChecksums[SumOf(bag.ActualChecksums, p)].Checksum
                  = bag.ManifestChecksums[SumOf(bag.ManifestChecksums, p)].Checksum)
              => \A d \in ret.disc : d.path # p
    /\ \A p \in PathsOf(bag.ActualChecksums) \ PathsOf(bag.ManifestChecksums) :
         Reports("extra file", p)

\* Every entry of the list whose path the cache held carries the cached sum.
RecordsCached(cache, list) ==
  \A i \in 1..Len(list) :
    GetSum(cache, list[i].Path).exists
      => list[i].Checksum = GetSum(cache, list[i].Path).value

\* C13: where the cache has a sum for a file's relative path, a pass of
\* GenerateChecksums or GenerateTagSums records that sum for the path, also
\* where it is not the digest of the file's content: the file is not hashed.
CacheTransparency ==
  [][/\ (ret'.op = "GenerateChecksums" /\ CachedGenerateChecksums)
          => RecordsCached(bag.Cache, bag'.ActualChecksums)
     /\ (ret'.op = "GenerateTagSums" /\ CachedGenerateTagSums)
          => RecordsCached(bag.Cache, bag'.ActualTagSums)]_vars

\* C13, reached: GenerateChecksums has recorded for data/a the sum of the cache,
\* which is not the digest of the file.
CacheTransparencyReached ==
  /\ ret.op = "GenerateChecksums"
  /\ ret.err = Nil
  /\ \E i \in 1..Len(bag.ActualChecksums) :
       /\ bag.ActualChecksums[i].Path = PayloadPath(<<W("a")>>)
       /\ bag.ActualChecksums[i].Checksum = Digest(Y)
       /\ GetSum(bag.Cache, PayloadPath(<<W("a")>>)).value = Digest(Y)
       /\ Digest(fs.files[PayloadPath(<<W("a")>>)]) = Digest(X)

\* The cache finds, under the path of every entry of the list, the entry's sum.
FindsAll(cache, list) ==
  \A i \in 1..Len(list) :
    GetSum(cache, list[i].Path) = [value |-> list[i].Checksum, exists |-> TRUE]

\* C14: the sum of every file of a pass is set in the cache under the relative
\* path it was looked up by: after a pass over a bag with a map cache, the cache
\* finds under the relative path of every file the sum the pass has recorded.
CacheKeyConsistency ==
  /\ (ret.op = "GenerateChecksums" /\ ret.err = Nil)
       => FindsAll(bag.Cache, bag.ActualChecksums)
  /\ (ret.op = "GenerateTagSums" /\ ret.err = Nil)
       => FindsAll(bag.Cache, bag.ActualTagSums)

\* The last call returned the error and the discrepancies of r.
ReturnedAs(r) == ret.err = r.err /\ ret.disc = r.disc

\* C15: Validate does not use the cache: on a Bag with any cache it returns the
\* error and the discrepancies it returns on a Bag without one.
ValidateIgnoresCache ==
  ret.op = "Validate" => ReturnedAs(Validate(New, fs))

\* Every entry of the list carries the digest of its file's content on disk.
FreshDigests(list) ==
  \A i \in 1..Len(list) :
    /\ IsRegular(fs, list[i].Path)
    /\ list[i].Checksum = Digest(fs.files[list[i].Path])

\* C16: on a Bag from New the cache is the no-op one and never has a sum: every
\* entry that GenerateChecksums and GenerateTagSums produce carries the digest
\* computed from the file's content at that pass.
NoopCacheAlwaysMisses ==
  /\ bag.Cache = noopCache
  /\ (ret.op = "GenerateChecksums" /\ ret.err = Nil)
       => FreshDigests(bag.ActualChecksums)
  /\ (ret.op = "GenerateTagSums" /\ ret.err = Nil)
       => FreshDigests(bag.ActualTagSums)

\* C16, reached: GenerateChecksums on a packed directory in which data/a was
\* changed afterwards has recorded the digest of the new content.
NoopCacheAlwaysMissesReached ==
  /\ ret.op = "GenerateChecksums"
  /\ ret.err = Nil
  /\ PackedThen({Edit("corrupt", PayloadPath(<<W("a")>>))})
  /\ \E i \in 1..Len(bag.ActualChecksums) :
       /\ bag.ActualChecksums[i].Path = PayloadPath(<<W("a")>>)
       /\ bag.ActualChecksums[i].Checksum = Digest(Y)

\* No entry of the list has a path less than the entry before it; and every
\* entry has a path greater than the entry before it.
Ascending(list) ==
  \A i \in 1..(Len(list) - 1) : ~PathLess(list[i + 1].Path, list[i].Path)
StrictlyAscending(list) ==
  \A i \in 1..(Len(list) - 1) : PathLess(list[i].Path, list[i + 1].Path)

\* The lists of a successful generation pass are in strictly ascending order of
\* path, and a second GenerateChecksums on the same files gives the same list.
GeneratedInOrder ==
  /\ (ret.op = "GenerateChecksums" /\ ret.err = Nil)
       => /\ StrictlyAscending(bag.ActualChecksums)
          /\ GenerateChecksums(bag, fs).b.ActualChecksums = bag.ActualChecksums
  /\ (ret.op = "GenerateTagSums" /\ ret.err = Nil)
       => StrictlyAscending(bag.ActualTagSums)

\* C17, as the claim states it: after a successful GenerateChecksums,
\* GenerateTagSums or ReadManifests the lists it populated are in strictly
\* ascending order of path, and two GenerateChecksums over the same files give
\* equal lists.
StrictlySorted ==
  /\ GeneratedInOrder
  /\ (ret.op = "ReadManifests" /\ ret.err = Nil)
       => /\ StrictlyAscending(bag.ManifestChecksums)
          /\ StrictlyAscending(bag.ManifestTagSums)

\* C17, amended: the lists that ReadManifests populates are in ascending order
\* of path, strictly where no path is on two lines of the file; a path that is on
\* two lines has two entries, one after the other.
Sorted ==
  /\ GeneratedInOrder
  /\ (ret.op = "ReadManifests" /\ ret.err = Nil)
       => /\ Ascending(bag.ManifestChecksums)
          /\ Ascending(bag.ManifestTagSums)
          /\ Cardinality(PathsOf(bag.ManifestChecksums)) = Len(bag.ManifestChecksums)
               => StrictlyAscending(bag.ManifestChecksums)
          /\ Len(bag.ManifestChecksums)
               = Len(SelectSeq(SplitLines(fs.files[manifestFilename]),
                               LAMBDA l : l # <<>>))

\* C17, reached: ReadManifests has read a manifest whose lines were not in
\* order and named data/a twice, and has the three entries in order.
SortedReached ==
  /\ ret.op = "ReadManifests"
  /\ ret.err = Nil
  /\ fs.files[manifestFilename] = OldManifestText
  /\ Len(bag.ManifestChecksums) = Len(SplitLines(OldManifestText)) - 1
  /\ bag.ManifestChecksums[Len(bag.ManifestChecksums)].Path = <<DataTok, W("b")>>

\* The regular files directly under the bag root.
RootFiles == {p \in DOMAIN fs.files : Len(p) = 0 \/ p[1] # DataTok}

\* ActualTagSums has one entry, and no more, for each of the files.
OneEntryEach(files) ==
  /\ PathsOf(bag.ActualTagSums) = files
  /\ Len(bag.ActualTagSums) = Cardinality(files)

\* C18, as the claim states it: after a successful GenerateTagSums,
\* ActualTagSums has exactly one entry for every regular file directly under
\* the bag root except tagmanifest-<algo>.txt of the active algorithm.
TagCoverageButOwn ==
  (ret.op = "GenerateTagSums" /\ ret.err = Nil)
    => OneEntryEach(RootFiles \ {tagManifestFilename})

\* C18, amended: after a successful GenerateTagSums, ActualTagSums has exactly
\* one entry for every regular file directly under the bag root whose name does
\* not match tagmanifest-*.txt, whatever the algorithm in the name, and no
\* entry for a directory or for a file below the root.
TagCoverage ==
  (ret.op = "GenerateTagSums" /\ ret.err = Nil)
    => /\ OneEntryEach({p \in RootFiles : ~MatchTagManifest(p)})
       /\ PathsOf(bag.ActualTagSums) \cap fs.dirs = {}
       /\ \A i \in 1..Len(bag.ActualTagSums) :
            bag.ActualTagSums[i].Path[1] # DataTok

\* C18, reached: GenerateTagSums has summed a root that holds a payload
\* file below data/, the tag manifest of md5 and other files.
TagCoverageReached ==
  /\ ret.op = "GenerateTagSums"
  /\ ret.err = Nil
  /\ IsRegular(fs, OtherTagManifest)
  /\ IsRegular(fs, PayloadPath(<<W("a")>>))
  /\ Len(bag.ActualTagSums) = Cardinality(RootFiles) - 1
  /\ Len(bag.ActualTagSums) > 0

\* Validate returned what the tag layer found, and went no further.
TagLayerReturned ==
  /\ ret.err = Nil
  /\ ret.disc # {}
  /\ ret.disc = TagComparison
  /\ ~Ran("GenerateChecksums")

\* C19: where data/ is not there or is not a directory, GenerateChecksums
\* returns the "not a bag" error; WriteTagFiles returns that error and creates
\* none of the manifest, bagit.txt and the tag manifest; and Validate returns an
\* error and no discrepancies, unless it returns the discrepancies of the tag
\* layer.
NotABag ==
  [][/\ (ret'.op = "GenerateChecksums" /\ ~IsDir(fs, DataDir)
           /\ CallGenerateChecksums)
          => ret'.err = ErrNotABag
     /\ (ret'.op = "WriteTagFiles" /\ ~IsDir(fs, DataDir) /\ CallWriteTagFiles)
          => /\ ret'.err = ErrNotABag
             /\ \A name \in {manifestFilename, BagitName, tagManifestFilename} :
                  MustNotExist(fs, name) => MustNotExist(fs', name)
     /\ (ret'.op = "Validate" /\ ~IsDir(fs, DataDir) /\ CallValidate)
          => \/ ret'.err # Nil /\ ret'.disc = {}
             \/ TagLayerReturned']_vars

\* C19, reached: on a root where data is a regular file and the manifest has
\* entries, Validate has come to generate the payload checksums and has
\* returned the "not a bag" error.
NotABagReached ==
  /\ ret.op = "Validate"
  /\ IsRegular(fs, DataDir)
  /\ Ran("GenerateChecksums")
  /\ ret.err = ErrNotABag
  /\ ret.disc = {}
  /\ MustNotExist(fs, BagitName)

\* C20: a run of the write or of the validate subcommand exits with status 0
\* exactly when the operation succeeded: it returned no error and, for
\* validate, no discrepancies; else the status is not 0.
ExitStatus ==
  ret.op \in {"write", "validate"}
    => (ret.code = 0 <=> (ret.err = Nil /\ ret.disc = {}))

\* C21: for a destination that was not there before, nothing is at the
\* destination as long as Close has not been called; after the Close that
\* succeeds the destination holds the bytes the Writes accepted, in order; and
\* after a Cancel with no Close before it nothing is at the destination and the
\* temporary file is gone.
SafeFileVisibility ==
  (sf.made /\ ~sfLog.existed) =>
    /\ "Close" \notin Range(sfLog.ops) => MustNotExist(fs, sf.finalPath)
    /\ (ret.op = "Close" /\ ret.err = Nil)
         => /\ IsRegular(fs, sf.finalPath)
            /\ fs.files[sf.finalPath] = sfLog.data
    /\ (ret.op = "Cancel" /\ "Close" \notin Range(sfLog.ops))
         => /\ MustNotExist(fs, sf.finalPath)
            /\ ~sf.temp.exists

\* C21, reached: two Writes and a Close that succeeded have left the bytes of
\* both Writes at a destination that was not there before.
SafeFileVisibilityReached ==
  /\ ~sfLog.existed
  /\ sfLog.ops = <<"Write", "Write", "Close">>
  /\ ret.err = Nil
  /\ fs.files[SafeDest] = <<W("b"), NL, W("a")>>

\* C22: the digest that Sum returns for a reader is the digest that a new
\* Hasher of the same algorithm returns for it, whatever the Hasher has hashed
\* or been written before.
DigestReuse ==
  /\ ret.op = "Sum" => ret.sum = Sum(NewSHA256, ret.input).sum
  /\ (ret.op = "FileSum" /\ ret.err = Nil)
       => ret.sum = FileSum(NewSHA256, fs, ret.input).sum

\* C22, reached: Sum has returned the digest of y alone on a Hasher whose hash
\* had taken in other bytes before, in two calls.
DigestReuseReached ==
  /\ ret.op = "Sum"
  /\ used = 3
  /\ ret.input = [data |-> Y, upto |-> 1]
  /\ ret.sum = Digest(Y)
  /\ h.Hash = Y

\* C23: the manifest and the tag manifest that a successful WriteTagFiles has
\* written read back, with ReadManifests, as the lists they were written from:
\* ManifestChecksums is ActualChecksums and ManifestTagSums is ActualTagSums,
\* entry by entry.
CodecRoundTrip ==
  (ret.op = "WriteTagFiles" /\ ret.err = Nil)
    => /\ ReadManifests(New, fs).err = Nil
       /\ ReadManifests(New, fs).b.ManifestChecksums = bag.ActualChecksums
       /\ ReadManifests(New, fs).b.ManifestTagSums = bag.ActualTagSums

\* The five steps of WriteTagFiles, and the steps of the last call that
\* completed: all it ran, but for the last one where the call returned an error.
FiveSteps ==
  <<"GenerateChecksums", "writeManifest", "writeBagitFile", "GenerateTagSums",
    "writeTagManifest">>
Completed(r) ==
  IF r.err = Nil THEN Range(r.calls)
  ELSE {r.calls[i] : i \in 1..(Len(r.calls) - 1)}

Unreadable(f) == {p \in PayloadFiles(f) : ~IsReadable(f, p)}
VisitedFirst(f) ==
  {p \in PayloadFiles(f) : \A q \in Unreadable(f) : PathLess(p, q)}

\* C25: where a payload file cannot be opened, GenerateChecksums returns the
\* error and has the sums of no file after the one that failed; WriteTagFiles
\* returns the error and writes no file; and a Validate that comes to generate
\* the payload checksums returns the error and no discrepancies.
FailFast ==
  [][/\ (ret'.op = "GenerateChecksums" /\ Unreadable(fs) # {}
           /\ CallGenerateChecksums)
          => /\ ret'.err = ErrCannotOpen
             /\ PathsOf(bag'.ActualChecksums) = VisitedFirst(fs)
     /\ (ret'.op = "WriteTagFiles" /\ Unreadable(fs) # {} /\ CallWriteTagFiles)
          => /\ ret'.err = ErrCannotOpen
             /\ ret'.calls = <<"GenerateChecksums">>
             /\ fs' = fs
     /\ (ret'.op = "Validate" /\ Unreadable(fs) # {}
           /\ "GenerateChecksums" \in Range(ret'.calls) /\ CallValidate)
          => /\ ret'.err = ErrCannotOpen
             /\ ret'.disc = {}]_vars

\* C25, reached: in a packed directory data/b can no longer be opened, and
\* Validate has summed data/a and returned the error of data/b.
FailFastReached ==
  /\ ret.op = "Validate"
  /\ packed
  /\ Unreadable(fs) = {PayloadPath(<<W("b")>>)}
  /\ ret.err = ErrCannotOpen
  /\ ret.disc = {}
  /\ PathsOf(bag.ActualChecksums) = {PayloadPath(<<W("a")>>)}

\* C26: where the tag manifest is on disk and the manifests read, also where
\* the tag manifest has no entries, Validate generates the tag sums and compares
\* them with the tag manifest before it validates the payload, and returns the
\* discrepancies of the comparison if there are any.
TagValidationWhenPresent ==
  (ret.op = "Validate" /\ IsRegular(fs, tagManifestFilename)
     /\ validateManifests(New, fs).err = Nil)
    => /\ Ran("GenerateTagSums")
       /\ (ret.err = Nil /\ TagComparison # {}) => ret.disc = TagComparison

\* The lines of the manifest file that are not empty, the entry that a line of
\* two fields stands for, and how often an element is in a sequence.
NonBlank == SelectSeq(SplitLines(fs.files[manifestFilename]), LAMBDA l : l # <<>>)
EntryOf(line) == [Path |-> Fields(line)[2], Checksum |-> Fields(line)[1]]
Count(seq, e) == Cardinality({i \in 1..Len(seq) : seq[i] = e})

\* C27: readSums skips the empty lines; where a line that is not empty has not
\* exactly two fields it returns the "invalid manifest line" error and no
\* entries; else it returns one entry, the digest and the path, for each line
\* that is not empty, in ascending order of path whatever the order of lines.
ManifestDecoding ==
  ret.op = "readSums" =>
    IF \E i \in 1..Len(NonBlank) : Len(Fields(NonBlank[i])) # 2
    THEN ret.err = ErrInvalidLine /\ ret.sums = <<>>
    ELSE /\ ret.err = Nil
         /\ Len(ret.sums) = Len(NonBlank)
         /\ Ascending(ret.sums)
         /\ \A i \in 1..Len(NonBlank) :
              Count(ret.sums, EntryOf(NonBlank[i]))
                = Cardinality({j \in 1..Len(NonBlank) :
                                 EntryOf(NonBlank[j]) = EntryOf(NonBlank[i])})

\* C27, reached: readSums has read the line of data/b, a blank line and the
\* line of data/a, and has returned the entry of data/a before that of data/b.
ManifestDecodingReached ==
  /\ ret.op = "readSums"
  /\ ret.err = Nil
  /\ Len(SplitLines(fs.files[manifestFilename])) = 4
  /\ Len(NonBlank) = 2
  /\ Len(ret.sums) = 2
  /\ ret.sums[1] = [Path |-> <<DataTok, W("a")>>, Checksum |-> Digest(Y)]
  /\ ret.sums[2] = [Path |-> <<DataTok, W("b")>>, Checksum |-> Digest(X)]
  /\ fs.files[manifestFilename][4] = DataTok

ChecksumOf(list, path) == list[SumOf(list, path)].Checksum
Differing(claimed, actual) ==
  {p \in PathsOf(claimed) \cap PathsOf(actual) :
     ChecksumOf(claimed, p) # ChecksumOf(actual, p)}

\* C29: on two lists without repeated paths Compare returns at most one
\* discrepancy for a path; as many discrepancies as there are paths only in the
\* claimed list, paths in both with different digests and paths only in the
\* actual list; and none if and only if the two lists give the same paths the
\* same digests.
CompareExact ==
  ret.op = "Compare" =>
    /\ \A d \in ret.disc, e \in ret.disc : d.path = e.path => d = e
    /\ Cardinality(ret.disc)
         = Cardinality(PathsOf(bag.ManifestChecksums) \ PathsOf(bag.ActualChecksums))
           + Cardinality(Differing(bag.ManifestChecksums, bag.ActualChecksums))
           + Cardinality(PathsOf(bag.ActualChecksums) \ PathsOf(bag.ManifestChecksums))
    /\ ret.disc = {}
         <=> /\ PathsOf(bag.ManifestChecksums) = PathsOf(bag.ActualChecksums)
             /\ Differing(bag.ManifestChecksums, bag.ActualChecksums) = {}

\* C30: a WriteTagFiles that returns an error has destroyed nothing: every file
\* that was under the bag root before the call is there after it, with the
\* content it had.
FailedWriteKeepsFiles ==
  [][(ret'.op = "WriteTagFiles" /\ ret'.err # Nil /\ CallWriteTagFiles)
       => \A p \in DOMAIN fs.files :
            IsRegular(fs', p) /\ fs'.files[p] = fs.files[p]]_vars

====
